---- MODULE Spec2Model ----
(***************************************************************************)
(* Model of materials/views/api.py of TaskuOpe: the game-completion view   *)
(* complete_game_ajax_view and the draft autosave view                     *)
(* assignment_autosave_view, acting on one Assignment row, the Submission  *)
(* rows that point at it and the structured_content of its Material.       *)
(***************************************************************************)
EXTENDS Integers, Sequences, FiniteSets, TLC

VARIABLES
    status,              \* Assignment.status of the stored row
    draft_response,      \* Assignment.draft_response, a sequence of characters
    submissions,         \* scores of assignment.submissions, in queryset order
    structured_content,  \* assignment.material.structured_content
    request,             \* the request the last handler call served
    response,            \* the response the last handler call returned
    pre                  \* the stored rows as the last handler call found them

vars == <<status, draft_response, submissions, structured_content,
          request, response, pre>>

----------------------------------------------------------------------------
(* Bounds and input sets *)

\* cap on the number of Submission rows of the assignment
MaxSubs == 2

\* the quiz pass mark
PassScore == 80

\* Assignment.Status
ASSIGNED == "ASSIGNED"
IN_PROGRESS == "IN_PROGRESS"
SUBMITTED == "SUBMITTED"
GRADED == "GRADED"
Statuses == {ASSIGNED, IN_PROGRESS, SUBMITTED, GRADED}

\* JSON / Python values a score can be: a number, None, a non-numeric string,
\* or (in a request body only) a missing key
Num(n) == [t |-> "num", v |-> n]
Null == [t |-> "null", v |-> 0]
Str == [t |-> "str", v |-> 0]
Absent == [t |-> "absent", v |-> 0]

ScoreNumbers == {0, 60, 79, 80, 85}
NumScores == {Num(n) : n \in ScoreNumbers}
\* Submission.score is numeric and nullable
StoredScores == NumScores \cup {Null}

\* request.body of the completion endpoint: bytes that are not JSON, a JSON
\* value that is not an object, or an object with or without a "score" key
Bodies ==
    {[kind |-> "invalid", score |-> Absent], [kind |-> "nonobject", score |-> Absent]}
    \cup {[kind |-> "object", score |-> s] : s \in NumScores \cup {Null, Str, Absent}}

\* request.POST of the autosave endpoint: the "response" field, when present
Posts ==
    {[present |-> FALSE, value |-> <<>>]}
    \cup {[present |-> TRUE, value |-> s] :
            s \in {<<>>, <<" ">>, <<"a">>, <<" ", "a">>, <<"a", " ">>,
                   <<" ", "a", " ">>, <<"a", " ", "a">>}}

\* the authenticated user of a request; the assignment belongs to "student"
Users == {"student", "other"}
student == "student"

\* structured_content: None, or a JSON object seen through its keys
GameKeys == {"levels", "word", "words", "pairs"}
Contents ==
    {[isNone |-> TRUE, keys |-> {}]}
    \cup {[isNone |-> FALSE, keys |-> k] : k \in SUBSET GameKeys}

BoundedSeq(S, n) == UNION {[1..k -> S] : k \in 0..n}

----------------------------------------------------------------------------
(* Python helpers *)

\* truth value of a Python object (None and 0 are false)
Truthy(x) == (x.t = "num" /\ x.v # 0) \/ x.t = "str"

\* (x or 0)
OrZero(x) == IF Truthy(x) THEN x ELSE Num(0)

\* queryset.last(): the rows are kept in creation order
Last(s) == s[Len(s)]

RECURSIVE LStrip(_)
LStrip(s) ==
    IF s = <<>> THEN s
    ELSE IF Head(s) = " " THEN LStrip(Tail(s)) ELSE s

RECURSIVE RStrip(_)
RStrip(s) ==
    IF s = <<>> THEN s
    ELSE IF s[Len(s)] = " " THEN RStrip(SubSeq(s, 1, Len(s) - 1)) ELSE s

\* str.strip()
Strip(s) == RStrip(LStrip(s))

----------------------------------------------------------------------------
(* Responses *)

JsonGame(st, sc, done) ==
    [http |-> 200, status |-> st, score |-> sc, completed |-> done]
JsonError(msg) == [http |-> 400, status |-> "error", message |-> msg]
Http404 == [http |-> 404, status |-> "not_found"]
\* an exception that leaves the view (TypeError, AttributeError, ValueError)
Unhandled == [http |-> 500, status |-> "unhandled"]
AutosaveOk == [http |-> 200, ok |-> TRUE, error |-> ""]
AutosaveError(code, err) == [http |-> code, ok |-> FALSE, error |-> err]

\* the stored rows a handler works on
Rows == [status |-> status, draft_response |-> draft_response,
         submissions |-> submissions]

Result(a, resp) ==
    [status |-> a.status, draft_response |-> a.draft_response,
     submissions |-> a.submissions, response |-> resp]

----------------------------------------------------------------------------
(* complete_game_ajax_view *)

\* structured_content or {}
GameData(content) == IF content.isNone THEN {} ELSE content.keys

\* an unrecognised payload falls through to the last game type
GameType_Fallthrough(game_data) ==
    IF "levels" \in game_data THEN "quiz"
    ELSE IF "word" \in game_data \/ "words" \in game_data THEN "hangman"
    ELSE "memory"

\* the keys are tested in the opposite order
GameType_PairsFirst(game_data) ==
    IF "pairs" \in game_data THEN "memory"
    ELSE IF "word" \in game_data \/ "words" \in game_data THEN "hangman"
    ELSE IF "levels" \in game_data THEN "quiz"
    ELSE "unknown"

GameType(game_data) ==
    IF "levels" \in game_data THEN "quiz"
    ELSE IF "word" \in game_data \/ "words" \in game_data THEN "hangman"
    ELSE IF "pairs" \in game_data THEN "memory"
    ELSE "unknown"

\* a strict comparison with the pass mark
Passes_Strict(score) == score.v > PassScore

\* score >= 80, for a numeric score
Passes(score) == score.v >= PassScore

\* data.get('score', 0)
ReadScore(body) == IF body.score = Absent THEN Num(0) ELSE body.score

\* a strict comparison of the stored score with the pass mark
AlreadyPassed_Strict(a) ==
    /\ Len(a.submissions) > 0
    /\ Truthy(Last(a.submissions))
    /\ Last(a.submissions).v > PassScore

\* the latest submission already holds a passing score
AlreadyPassed(a) ==
    /\ Len(a.submissions) > 0
    /\ Truthy(Last(a.submissions))
    /\ Last(a.submissions).v >= PassScore

\* the submitted score is stored without the comparison
Improves_Always(a, score) == TRUE

\* not existing_sub or (existing_sub.score or 0) < score, for a numeric score
Improves(a, score) ==
    \/ Len(a.submissions) = 0
    \/ OrZero(Last(a.submissions)).v < score.v

\* every improvement is stored as a new row
StoreImproved_Duplicate(a, score) ==
    [a EXCEPT !.submissions = Append(a.submissions, score)]

\* existing_sub.score = score; save   /   Submission.objects.create(score=score)
StoreImproved(a, score) ==
    IF Len(a.submissions) > 0
    THEN [a EXCEPT !.submissions[Len(a.submissions)] = score]
    ELSE [a EXCEPT !.submissions = Append(a.submissions, score)]

\* Submission.objects.create(..., score=score)
CreateSubmission(a, score) == [a EXCEPT !.submissions = Append(a.submissions, score)]

\* the wrong member of Assignment.Status is written
SetGraded_Submitted(a) == [a EXCEPT !.status = SUBMITTED]

\* assignment.status = GRADED; assignment.save(update_fields=['status'])
SetGraded(a) == [a EXCEPT !.status = GRADED]

\* the branch taken when the assignment is already GRADED and the game is a quiz
RepeatQuiz(a, score) ==
    IF AlreadyPassed(a)
    THEN Result(a, JsonGame("already_completed", Last(a.submissions), TRUE))
    ELSE IF Len(a.submissions) > 0 /\ score.t # "num"
    THEN Result(a, Unhandled)                      \* TypeError in the comparison
    ELSE IF Len(a.submissions) = 0 /\ score.t = "str"
    THEN Result(a, Unhandled)                      \* create rejects the value
    ELSE LET b == IF Improves(a, score) THEN StoreImproved(a, score) ELSE a
         IN  IF score.t # "num"
             THEN Result(b, Unhandled)             \* TypeError in score >= 80
             ELSE IF Passes(score)
             THEN Result(SetGraded(b), JsonGame("success", score, TRUE))
             ELSE Result(b, JsonGame("retry", score, FALSE))

\* the repeat answer does not look the stored score up
RepeatOther_NoLookup(a) == Result(a, JsonGame("already_completed", Num(0), TRUE))

\* the branch taken when the assignment is already GRADED and the game is not a quiz
RepeatOther(a) ==
    Result(a, JsonGame("already_completed",
                       IF Len(a.submissions) > 0 THEN Last(a.submissions) ELSE Num(0),
                       TRUE))

\* the pass mark is applied to every game type
FirstAttempt_AllThreshold(a, game_type, score) ==
    IF score.t # "num"
    THEN Result(a, Unhandled)
    ELSE LET b == IF Passes(score) THEN SetGraded(a) ELSE a
         IN  Result(CreateSubmission(b, score),
                    JsonGame("success", score, Passes(score)))

\* a quiz is graded on any submission, like the other games
FirstAttempt_NoThreshold(a, game_type, score) ==
    IF score.t = "str"
    THEN Result(SetGraded(a), Unhandled)
    ELSE Result(CreateSubmission(SetGraded(a), score), JsonGame("success", score, TRUE))

\* the first attempt: the assignment is not GRADED yet
FirstAttempt(a, game_type, score) ==
    IF game_type = "quiz"
    THEN IF score.t # "num"
         THEN Result(a, Unhandled)                 \* TypeError in score >= 80
         ELSE LET b == IF Passes(score) THEN SetGraded(a) ELSE a
              IN  Result(CreateSubmission(b, score),
                         JsonGame("success", score, Passes(score)))
    ELSE LET b == SetGraded(a)
         IN  IF score.t = "str"
             THEN Result(b, Unhandled)             \* create rejects the value
             ELSE Result(CreateSubmission(b, score), JsonGame("success", score, TRUE))

CompleteGame(a, content, user, body) ==
    IF user # student
    THEN Result(a, Http404)
    ELSE IF GameType(GameData(content)) = "unknown"
    THEN Result(a, JsonError("Tuntematon pelityyppi"))
    ELSE IF body.kind = "invalid"
    THEN Result(a, JsonError("Virheellinen JSON"))
    ELSE IF body.kind = "nonobject"
    THEN Result(a, Unhandled)                      \* AttributeError in data.get
    ELSE IF a.status = GRADED
    THEN IF GameType(GameData(content)) = "quiz"
         THEN RepeatQuiz(a, ReadScore(body))
         ELSE RepeatOther(a)
    ELSE FirstAttempt(a, GameType(GameData(content)), ReadScore(body))

----------------------------------------------------------------------------
(* assignment_autosave_view *)

\* only a graded assignment is locked
Locked_GradedOnly(a) == a.status = GRADED

Locked(a) == a.status \in {SUBMITTED, GRADED}

\* (request.POST.get("response") or "").strip()
ReadDraft(post) == IF post.present THEN Strip(post.value) ELSE <<>>

\* the first touch does not look at the draft
TouchStatus_AnyDraft(a, draft) ==
    IF a.status = ASSIGNED THEN IN_PROGRESS ELSE a.status

\* an empty draft puts the assignment back to ASSIGNED
TouchStatus_Reset(a, draft) ==
    IF draft # <<>> THEN (IF a.status = ASSIGNED THEN IN_PROGRESS ELSE a.status)
    ELSE ASSIGNED

\* the first-touch transition
TouchStatus(a, draft) ==
    IF draft # <<>> /\ a.status = ASSIGNED THEN IN_PROGRESS ELSE a.status

\* the lock is tested before the owner
Autosave_LockFirst(a, user, post) ==
    IF Locked(a)
    THEN Result(a, AutosaveError(400, "locked"))
    ELSE IF user # student
    THEN Result(a, AutosaveError(403, "forbidden"))
    ELSE Result([a EXCEPT !.draft_response = ReadDraft(post),
                          !.status = TouchStatus(a, ReadDraft(post))],
                AutosaveOk)

Autosave(a, user, post) ==
    IF user # student
    THEN Result(a, AutosaveError(403, "forbidden"))
    ELSE IF Locked(a)
    THEN Result(a, AutosaveError(400, "locked"))
    ELSE Result([a EXCEPT !.draft_response = ReadDraft(post),
                          !.status = TouchStatus(a, ReadDraft(post))],
                AutosaveOk)

----------------------------------------------------------------------------
(* The state machine *)

NoBody == [kind |-> "none", score |-> Absent]
NoPost == [present |-> FALSE, value |-> <<>>]
\* no request is being served
NoRequest == [op |-> "none", user |-> student, body |-> NoBody, post |-> NoPost]
NoResponse == [http |-> 0, status |-> "none"]

\* the rows as the other views of the application may have left them
Init ==
    /\ status \in Statuses
    /\ draft_response \in {<<>>, <<"a">>}
    /\ submissions \in BoundedSeq(StoredScores, MaxSubs)
    /\ structured_content \in Contents
    /\ request = NoRequest
    /\ response = NoResponse
    /\ pre = Rows

\* a handler runs from start to finish on the rows it finds
Commit(r, req) ==
    /\ request = NoRequest
    /\ Len(r.submissions) <= MaxSubs
    /\ status' = r.status
    /\ draft_response' = r.draft_response
    /\ submissions' = r.submissions
    /\ response' = r.response
    /\ request' = req
    /\ pre' = Rows
    /\ UNCHANGED structured_content

complete_game_ajax_view ==
    \E user \in Users, body \in Bodies :
        Commit(CompleteGame(Rows, structured_content, user, body),
               [op |-> "complete", user |-> user, body |-> body, post |-> NoPost])

assignment_autosave_view ==
    \E user \in Users, post \in Posts :
        Commit(Autosave(Rows, user, post),
               [op |-> "autosave", user |-> user, body |-> NoBody, post |-> post])

\* the response goes back to the client; the next request finds the rows as left
send_response ==
    /\ request # NoRequest
    /\ request' = NoRequest
    /\ response' = NoResponse
    /\ pre' = Rows
    /\ UNCHANGED <<status, draft_response, submissions, structured_content>>

Next == complete_game_ajax_view \/ assignment_autosave_view \/ send_response

Spec == Init /\ [][Next]_vars

----------------------------------------------------------------------------
(* Vocabulary of the properties: the request just served and what it found *)

\* a completion request of the owning student has just been served
OwnerCompletion == request.op = "complete" /\ request.user = student

\* an autosave request of the owning student has just been served
OwnerAutosave == request.op = "autosave" /\ request.user = student

\* the body is a JSON object
ObjectBody == request.body.kind = "object"

\* the body is a JSON object whose score is a number
NumericScore == ObjectBody /\ request.body.score.t = "num"

\* the material is a quiz: its structured content holds levels
QuizMaterial ==
    ~structured_content.isNone /\ "levels" \in structured_content.keys

\* the material is a hangman or memory game
OtherGameMaterial ==
    /\ ~structured_content.isNone
    /\ "levels" \notin structured_content.keys
    /\ structured_content.keys \cap {"word", "words", "pairs"} # {}

\* the material holds none of the recognised keys
UnknownMaterial ==
    structured_content.isNone \/ structured_content.keys \cap GameKeys = {}

\* the request found a latest submission with a numeric score
PreLatestNumeric ==
    /\ Len(pre.submissions) > 0
    /\ pre.submissions[Len(pre.submissions)].t = "num"

PreLatest == pre.submissions[Len(pre.submissions)]

\* the request left the assignment and its submissions as it found them
NoMutation ==
    /\ status = pre.status
    /\ draft_response = pre.draft_response
    /\ submissions = pre.submissions

----------------------------------------------------------------------------
(* C1..C5: the completion endpoint *)

\* C1: a completion request with a numeric score s on a quiz assignment that is
\* not GRADED creates exactly one Submission recording s; s >= 80 makes the
\* assignment GRADED and answers completed=true, s < 80 leaves the status as it
\* was and answers completed=false.
C1_QuizFirstAttempt ==
    (OwnerCompletion /\ QuizMaterial /\ pre.status # GRADED /\ NumericScore) =>
        /\ submissions = Append(pre.submissions, request.body.score)
        /\ response.http = 200
        /\ IF request.body.score.v >= 80
           THEN status = GRADED /\ response.completed = TRUE
           ELSE status = pre.status /\ response.completed = FALSE

C1_Witness ==
    /\ OwnerCompletion /\ QuizMaterial /\ NumericScore
    /\ pre.status = ASSIGNED
    /\ request.body.score.v = 80
    /\ status = GRADED
    /\ Len(submissions) = Len(pre.submissions) + 1

\* C2: a completion request with a numeric score on a hangman or memory
\* assignment that is not GRADED makes it GRADED, creates exactly one Submission
\* recording the score and answers completed=true.
C2_OtherFirstAttempt ==
    (OwnerCompletion /\ OtherGameMaterial /\ pre.status # GRADED /\ NumericScore) =>
        /\ status = GRADED
        /\ submissions = Append(pre.submissions, request.body.score)
        /\ response.http = 200
        /\ response.completed = TRUE

C2_Witness ==
    /\ OwnerCompletion /\ OtherGameMaterial /\ NumericScore
    /\ pre.status = IN_PROGRESS
    /\ request.body.score.v = 0
    /\ status = GRADED
    /\ submissions = Append(pre.submissions, Num(0))

\* C3, as amended: when a quiz assignment is GRADED and its latest submission
\* has a score >= 80, a completion request with a JSON-object body, whatever
\* score it carries, answers already_completed, completed=true and that stored
\* score, and changes neither the assignment nor any submission.
C3_PassedQuizIdempotent ==
    (/\ OwnerCompletion /\ QuizMaterial /\ ObjectBody
     /\ pre.status = GRADED
     /\ PreLatestNumeric /\ PreLatest.v >= 80) =>
        /\ response.http = 200
        /\ response.status = "already_completed"
        /\ response.completed = TRUE
        /\ response.score = PreLatest
        /\ NoMutation

C3_Witness ==
    /\ OwnerCompletion /\ QuizMaterial /\ ObjectBody
    /\ pre.status = GRADED
    /\ PreLatestNumeric /\ PreLatest.v = 85
    /\ request.body.score = Num(60)
    /\ response.status = "already_completed"
    /\ response.score = Num(85)

\* C3, as stated: when a quiz assignment is GRADED and has a submission (any
\* of them) with a score >= 80, a completion request answers already_completed
\* with a stored score >= 80 and changes nothing.
C3_AsStated ==
    (/\ OwnerCompletion /\ QuizMaterial /\ ObjectBody
     /\ pre.status = GRADED
     /\ \E i \in 1..Len(pre.submissions) :
            pre.submissions[i].t = "num" /\ pre.submissions[i].v >= 80) =>
        /\ response.http = 200
        /\ response.status = "already_completed"
        /\ response.completed = TRUE
        /\ response.score.t = "num" /\ response.score.v >= 80
        /\ NoMutation

\* C4: on a GRADED quiz assignment whose latest submission has a score p < 80,
\* a completion request with a score s > p overwrites that submission's score
\* with s and creates no Submission; it answers retry, completed=false when
\* s < 80 and success, completed=true with the assignment GRADED when s >= 80.
C4_ImprovementInPlace ==
    (/\ OwnerCompletion /\ QuizMaterial /\ NumericScore
     /\ pre.status = GRADED
     /\ PreLatestNumeric /\ PreLatest.v < 80
     /\ request.body.score.v > PreLatest.v) =>
        /\ submissions =
              [pre.submissions EXCEPT ![Len(pre.submissions)] = request.body.score]
        /\ Len(submissions) = Len(pre.submissions)
        /\ status = GRADED
        /\ response.http = 200
        /\ response.score = request.body.score
        /\ IF request.body.score.v < 80
           THEN response.status = "retry" /\ response.completed = FALSE
           ELSE response.status = "success" /\ response.completed = TRUE

C4_Witness ==
    /\ OwnerCompletion /\ QuizMaterial /\ NumericScore
    /\ pre.status = GRADED
    /\ pre.submissions = <<Num(60)>>
    /\ request.body.score = Num(79)
    /\ submissions = <<Num(79)>>
    /\ response.status = "retry"

\* C5: on a GRADED hangman or memory assignment a completion request with a
\* JSON-object body answers already_completed, completed=true and the latest
\* submission's score (0 when there is no submission), and changes neither the
\* assignment nor any submission.
C5_OtherRepeatNoMutation ==
    (OwnerCompletion /\ OtherGameMaterial /\ ObjectBody /\ pre.status = GRADED) =>
        /\ response.http = 200
        /\ response.status = "already_completed"
        /\ response.completed = TRUE
        /\ response.score =
              IF Len(pre.submissions) > 0 THEN PreLatest ELSE Num(0)
        /\ NoMutation

C5_Witness ==
    /\ OwnerCompletion /\ OtherGameMaterial /\ ObjectBody
    /\ pre.status = GRADED
    /\ pre.submissions = <<Num(60), Num(85)>>
    /\ request.body.score = Num(79)
    /\ response.status = "already_completed"
    /\ response.score = Num(85)
    /\ NoMutation

----------------------------------------------------------------------------
(* C6, C7: the autosave endpoint *)

\* the raw text of the "response" field of the request ("" when it is missing)
RawDraft == IF request.post.present THEN request.post.value ELSE <<>>

\* d is raw without its leading and trailing whitespace
IsTrimOf(d, raw) ==
    \E i \in 1..(Len(raw) + 1) :
        /\ i + Len(d) - 1 <= Len(raw)
        /\ d = SubSeq(raw, i, i + Len(d) - 1)
        /\ \A k \in 1..Len(raw) : (k < i \/ k > i + Len(d) - 1) => raw[k] = " "
        /\ d # <<>> => (d[1] # " " /\ d[Len(d)] # " ")

\* C6: a successful autosave by the owner stores the trimmed draft, and the
\* status becomes IN_PROGRESS exactly when it was ASSIGNED and the trimmed
\* draft is non-empty; in every other case the status stays as it was.
C6_AutosaveFirstTouch ==
    (OwnerAutosave /\ response.ok) =>
        /\ IsTrimOf(draft_response, RawDraft)
        /\ status = IF pre.status = ASSIGNED /\ draft_response # <<>>
                    THEN IN_PROGRESS
                    ELSE pre.status
        /\ status \in {ASSIGNED, IN_PROGRESS}
        /\ submissions = pre.submissions

C6_Witness ==
    /\ OwnerAutosave /\ response.ok
    /\ pre.status = ASSIGNED
    /\ RawDraft = <<" ", "a", " ">>
    /\ draft_response = <<"a">>
    /\ status = IN_PROGRESS

\* C7: an autosave request of the owner on an assignment that is SUBMITTED or
\* GRADED answers ok=false with error "locked" and leaves draft_response and
\* status unchanged, whatever the draft.
C7_AutosaveLocked ==
    (OwnerAutosave /\ pre.status \in {SUBMITTED, GRADED}) =>
        /\ response.ok = FALSE
        /\ response.error = "locked"
        /\ response.http = 400
        /\ NoMutation

C7_Witness ==
    /\ OwnerAutosave
    /\ pre.status = SUBMITTED
    /\ pre.draft_response = <<"a">>
    /\ RawDraft = <<"a", " ", "a">>
    /\ response.error = "locked"
    /\ draft_response = <<"a">>

----------------------------------------------------------------------------
(* C8, C9: the stored status across requests *)

Rank(s) ==
    CASE s = ASSIGNED -> 0
      [] s = IN_PROGRESS -> 1
      [] s = SUBMITTED -> 2
      [] s = GRADED -> 3

\* C8: no request moves the stored status backward in the order
\* ASSIGNED < IN_PROGRESS < SUBMITTED < GRADED, and a stored GRADED stays
\* GRADED, also through a quiz retry that answers completed=false.
C8_StatusMonotonic ==
    [][/\ Rank(status') >= Rank(status)
       /\ status = GRADED => status' = GRADED]_vars

C8_Witness ==
    /\ OwnerCompletion /\ QuizMaterial
    /\ pre.status = GRADED
    /\ response.http = 200
    /\ response.status = "retry"
    /\ response.completed = FALSE
    /\ status = GRADED

\* C9, as amended: every change of the stored status is either ASSIGNED ->
\* IN_PROGRESS, made by a successful autosave with a non-empty trimmed draft,
\* or a move from ASSIGNED, IN_PROGRESS or SUBMITTED straight to GRADED, made
\* by a completion request; no request writes SUBMITTED.
C9_StatusEdges ==
    (request.op # "none" /\ status # pre.status) =>
        \/ /\ request.op = "autosave"
           /\ response.ok
           /\ pre.status = ASSIGNED
           /\ status = IN_PROGRESS
           /\ draft_response # <<>>
        \/ /\ request.op = "complete"
           /\ pre.status \in {ASSIGNED, IN_PROGRESS, SUBMITTED}
           /\ status = GRADED

C9_Witness ==
    /\ OwnerCompletion /\ NumericScore
    /\ pre.status = ASSIGNED
    /\ status = GRADED
    /\ response.completed = TRUE

\* C9, as stated: every change of the stored status follows one edge of
\* ASSIGNED -> IN_PROGRESS -> SUBMITTED -> GRADED, so GRADED is entered only
\* from SUBMITTED.
C9_AsStated ==
    (request.op # "none" /\ status # pre.status) =>
        <<pre.status, status>> \in
            {<<ASSIGNED, IN_PROGRESS>>, <<IN_PROGRESS, SUBMITTED>>,
             <<SUBMITTED, GRADED>>}

----------------------------------------------------------------------------
(* C10: unknown structured content *)

\* C10: a completion request of the owner on an assignment whose material holds
\* none of the keys levels, word, words, pairs (empty or absent content
\* included) answers 400 with the unknown-game-type message and changes neither
\* the assignment nor any submission, whatever the body and the status.
C10_UnknownGameType ==
    (OwnerCompletion /\ UnknownMaterial) =>
        /\ response.http = 400
        /\ response.status = "error"
        /\ response.message = "Tuntematon pelityyppi"
        /\ NoMutation

C10_Witness ==
    /\ OwnerCompletion
    /\ structured_content.isNone
    /\ request.body.kind = "invalid"
    /\ pre.status = IN_PROGRESS
    /\ response.http = 400
    /\ response.message = "Tuntematon pelityyppi"
    /\ NoMutation

----------------------------------------------------------------------------
(* C11, C12: requests the endpoints refuse *)

\* C11: a request of a user who is not the owning student changes neither the
\* status, nor draft_response, nor any submission, in every assignment state:
\* autosave answers 403 with ok=false and error "forbidden", the completion
\* endpoint answers 404.
C11_NonOwnerRefused ==
    (request.op # "none" /\ request.user # student) =>
        /\ NoMutation
        /\ request.op = "autosave" =>
              /\ response.http = 403
              /\ response.ok = FALSE
              /\ response.error = "forbidden"
        /\ request.op = "complete" => response.http = 404

C11_Witness ==
    /\ request.op = "autosave" /\ request.user = "other"
    /\ pre.status = SUBMITTED
    /\ RawDraft = <<"a">>
    /\ response.error = "forbidden"
    /\ NoMutation

\* the body is not JSON, is a JSON value that is not an object, or holds a
\* score that is not a number
MalformedBody ==
    \/ request.body.kind \in {"invalid", "nonobject"}
    \/ request.body.kind = "object" /\ request.body.score.t \in {"null", "str"}

\* C12, as stated: a completion request of the owner with a missing or
\* malformed body, on a quiz or non-quiz assignment in any status, is answered
\* with a 400 structured error, raises nothing, and changes neither the status
\* nor the submissions.
C12_AsStated ==
    (OwnerCompletion /\ (QuizMaterial \/ OtherGameMaterial) /\ MalformedBody) =>
        /\ response.http = 400
        /\ response.status = "error"
        /\ status = pre.status
        /\ submissions = pre.submissions

----------------------------------------------------------------------------
(* generate_game_metadata *)

\* the subjects of the curriculum (written here without diacritics)
VALID_SUBJECTS ==
    {"Aidinkieli ja kirjallisuus", "Matematiikka", "Ymparistooppi", "Ruotsi",
     "Englanti", "Fysiikka", "Kemia", "Maantieto", "Kotitalous", "Terveystieto",
     "Liikunta", "Musiikki", "Kuvataide", "Kasityo",
     "Uskonto tai elamankatsomustieto", "Historia", "Yhteiskuntaoppi"}

\* the subject used when the answer names none of the list
DefaultSubject == "Ymparistooppi"

\* topic[:40]
TitleTopicLen == 40

\* a JSON value of the provider's answer, or an argument of the call
Text(x) == [t |-> "str", s |-> x]
NoText == [t |-> "absent", s |-> ""]
NullText == [t |-> "null", s |-> ""]
NotText == [t |-> "other", s |-> ""]

\* a topic is a run of n characters
Topic(n) == [i \in 1..n |-> "x"]
Topics == {Topic(0), Topic(3), Topic(40), Topic(41)}

\* game_name: a string, or (the caller passes a JSON value) something else
GameNames == {Text("quiz"), Text("Hangman"), Text("MEMORY"), NotText}

\* what client.chat.completions.create and json.loads can come to: the call
\* raises, the content is not JSON, the JSON is not an object, or it is an
\* object with or without "title" and "subject"
ProviderOutcomes ==
    {[kind |-> k, title |-> NoText, subject |-> NoText] :
        k \in {"raises", "not_json", "nonobject"}}
    \cup {[kind |-> "object", title |-> ti, subject |-> su] :
            ti \in {NoText, NullText, Text("Otsikko")},
            su \in {Text(x) : x \in VALID_SUBJECTS \cup {"Biologia", ""}}
                   \cup {NoText, NullText, NotText}}

\* str.capitalize()
Capitalize(name) ==
    CASE name = "quiz" -> "Quiz"
      [] name = "Hangman" -> "Hangman"
      [] name = "MEMORY" -> "Memory"

\* s[:n]
Take(s, n) == SubSeq(s, 1, IF Len(s) < n THEN Len(s) ELSE n)

\* f'{game_name.capitalize()}: {topic[:40]}'
FallbackTitle(game_name, topic) ==
    [t |-> "fallback", s |-> Capitalize(game_name.s), topic |-> Take(topic, TitleTopicLen)]

\* result.get('title', <fallback>)
ReadTitle(result, game_name, topic) ==
    IF result.title = NoText
    THEN FallbackTitle(game_name, topic)
    ELSE [t |-> result.title.t, s |-> result.title.s, topic |-> <<>>]

\* the answered subject is handed on as it came
ValidatedSubject_Unchecked(result) ==
    IF result.subject = NoText THEN DefaultSubject ELSE result.subject.s

\* result.get('subject', 'Ympäristöoppi'), replaced when it is not on the list
ValidatedSubject(result) ==
    IF result.subject.t = "str" /\ result.subject.s \in VALID_SUBJECTS
    THEN result.subject.s
    ELSE DefaultSubject

Returned(title, subject) == [kind |-> "returned", title |-> title, subject |-> subject]
\* an exception leaves generate_game_metadata
Raised == [kind |-> "raised", title |-> NoText, subject |-> ""]

GenerateGameMetadata(game_name, topic, provider) ==
    IF game_name.t # "str"
    THEN Raised                   \* game_name.capitalize() fails in the handler too
    ELSE IF provider.kind = "object"
    THEN Returned(ReadTitle(provider, game_name, topic), ValidatedSubject(provider))
    ELSE Returned(FallbackTitle(game_name, topic), DefaultSubject)

\* one call of generate_game_metadata; the assignment rows play no part
InitMeta ==
    /\ status = ASSIGNED
    /\ draft_response = <<>>
    /\ submissions = <<>>
    /\ structured_content = [isNone |-> TRUE, keys |-> {}]
    /\ request = NoRequest
    /\ response = NoResponse
    /\ pre = Rows

generate_game_metadata ==
    /\ request = NoRequest
    /\ \E game_name \in GameNames, topic \in Topics, provider \in ProviderOutcomes :
        /\ request' = [op |-> "metadata", game_name |-> game_name, topic |-> topic,
                       provider |-> provider]
        /\ response' = GenerateGameMetadata(game_name, topic, provider)
    /\ UNCHANGED <<status, draft_response, submissions, structured_content, pre>>

NextMeta == generate_game_metadata \/ send_response

SpecMeta == InitMeta /\ [][NextMeta]_vars

\* C13: for string arguments and every outcome of the provider call (it
\* raises, unparseable content, a JSON value that is not an object, a missing
\* or unlisted subject) generate_game_metadata raises nothing and returns a
\* title and a subject; the subject is on the fixed list, and is the default
\* subject on every failure and for every value not on the list.
C13_MetadataNeverRaises ==
    (request.op = "metadata" /\ request.game_name.t = "str") =>
        /\ response.kind = "returned"
        /\ response.title.t # "absent"
        /\ response.subject \in VALID_SUBJECTS
        /\ (\/ request.provider.kind # "object"
            \/ request.provider.subject.t # "str"
            \/ request.provider.subject.s \notin VALID_SUBJECTS)
           => response.subject = "Ymparistooppi"
        /\ request.provider.kind # "object" => response.title.t = "fallback"

C13_Witness ==
    /\ request.op = "metadata" /\ request.game_name = Text("quiz")
    /\ request.provider.kind = "object"
    /\ request.provider.subject = Text("Biologia")
    /\ response.kind = "returned"
    /\ response.subject = "Ymparistooppi"

----------------------------------------------------------------------------
(* generate_game_ajax_view, generate_image_view, assignment_tts_view *)

\* what a collaborator call (AI provider, object storage) can come to
CallOutcomes == {"raises", "empty", "result"}

JsonStatus(code) == [http |-> code, kind |-> "json"]
\* HttpResponseForbidden
Forbidden == [http |-> 403, kind |-> "text"]
\* HttpResponse(audio_bytes, content_type='audio/mpeg')
Audio == [http |-> 200, kind |-> "audio"]
\* an exception leaves the view
Fault == [http |-> 500, kind |-> "unhandled"]

\* request.body of the game-generation endpoint
GameBodies ==
    {[kind |-> k, topic |-> NoText, game_type |-> ""] : k \in {"invalid", "nonobject"}}
    \cup {[kind |-> "object", topic |-> t, game_type |-> g] :
            t \in {Text("quiz"), NotText, NoText},
            g \in {"quiz", "hangman", "memory", "bingo", ""}}

\* the characters of a game type, as generate_game_metadata receives them
GameTypeChars(game_type) ==
    CASE game_type = "quiz" -> Topic(4)
      [] game_type = "hangman" -> Topic(7)
      [] game_type = "memory" -> Topic(6)

\* generate_game_content: ValueError for an unknown type, else the provider call
\* and json.loads of its content
GameContent(game_type, provider) ==
    IF game_type \notin {"quiz", "hangman", "memory"} THEN "raises"
    ELSE provider

\* not topic, for the JSON value of the body
Falsy(value) == value.t \in {"absent", "null"} \/ (value.t = "str" /\ value.s = "")

GenerateGame(role, body, provider, meta_provider) ==
    IF role # "TEACHER" THEN JsonStatus(403)
    ELSE IF body.kind \in {"invalid", "nonobject"} THEN JsonStatus(500)
    ELSE IF Falsy(body.topic) \/ body.game_type = "" THEN JsonStatus(400)
    ELSE IF GameContent(body.game_type, provider) = "raises" THEN JsonStatus(500)
    ELSE IF GenerateGameMetadata(body.topic, GameTypeChars(body.game_type),
                                 meta_provider).kind = "raised"
    THEN JsonStatus(500)
    ELSE JsonStatus(200)

\* the payload of the image endpoint: a form, or a JSON body
ImageBodies ==
    {[kind |-> "json_invalid", prompt |-> NoPost], [kind |-> "json_nonobject", prompt |-> NoPost]}
    \cup {[kind |-> k, prompt |-> post] : k \in {"form", "json_object"}, post \in Posts}

\* (payload.get("prompt") or "").strip()
ReadPrompt(body) ==
    IF body.kind \in {"form", "json_object"} THEN ReadDraft(body.prompt) ELSE <<>>

GenerateImage(body, provider, storage) ==
    IF body.kind = "json_nonobject" THEN Fault        \* payload.get fails
    ELSE IF ReadPrompt(body) = <<>> THEN JsonStatus(400)
    ELSE IF provider \in {"raises", "empty"} THEN JsonStatus(502)
    ELSE IF storage = "raises" THEN Fault             \* default_storage.save / url
    ELSE JsonStatus(201)

\* material.content: a run of words, blanks and Markdown images
Materials ==
    {<<>>, <<" ">>, <<"img">>, <<"img", " ">>, <<"w">>, <<"img", " ", "w">>,
     <<"w", " ", "img">>}

RECURSIVE SkipBlanks(_)
SkipBlanks(s) ==
    IF s = <<>> THEN s
    ELSE IF Head(s) = " " THEN SkipBlanks(Tail(s)) ELSE s

\* re.sub(<Markdown image followed by whitespace>, '', raw_text)
RECURSIVE CleanImages(_)
CleanImages(s) ==
    IF s = <<>> THEN s
    ELSE IF Head(s) = "img" THEN CleanImages(SkipBlanks(Tail(s)))
    ELSE <<Head(s)>> \o CleanImages(Tail(s))

TextToSpeech(user, raw_text, provider) ==
    IF user # student THEN Forbidden
    ELSE IF raw_text = <<>> THEN JsonStatus(400)
    ELSE IF Strip(CleanImages(raw_text)) = <<>> THEN JsonStatus(400)
    ELSE IF provider = "raises" THEN Fault            \* no try around generate_speech
    ELSE IF provider = "result" THEN Audio
    ELSE JsonStatus(500)

generate_game_ajax_view ==
    /\ request = NoRequest
    /\ \E role \in {"TEACHER", "STUDENT"}, body \in GameBodies,
          provider \in CallOutcomes, meta_provider \in {"raises", "object"} :
        /\ request' = [op |-> "generate_game", role |-> role, body |-> body,
                       provider |-> provider, meta_provider |-> meta_provider]
        /\ response' =
              GenerateGame(role, body, provider,
                           [kind |-> meta_provider, title |-> NoText, subject |-> NoText])
    /\ UNCHANGED <<status, draft_response, submissions, structured_content, pre>>

generate_image_view ==
    /\ request = NoRequest
    /\ \E body \in ImageBodies, provider \in CallOutcomes, storage \in {"raises", "result"} :
        /\ request' = [op |-> "generate_image", body |-> body, provider |-> provider,
                       storage |-> storage]
        /\ response' = GenerateImage(body, provider, storage)
    /\ UNCHANGED <<status, draft_response, submissions, structured_content, pre>>

assignment_tts_view ==
    /\ request = NoRequest
    /\ \E user \in Users, raw_text \in Materials, provider \in CallOutcomes :
        /\ request' = [op |-> "tts", user |-> user, raw_text |-> raw_text,
                       provider |-> provider]
        /\ response' = TextToSpeech(user, raw_text, provider)
    /\ UNCHANGED <<status, draft_response, submissions, structured_content, pre>>

NextUpstream ==
    generate_game_ajax_view \/ generate_image_view \/ assignment_tts_view
    \/ send_response

SpecUpstream == InitMeta /\ [][NextUpstream]_vars

\* the request reached a collaborator and the collaborator failed: it raised,
\* or it returned an empty result
UpstreamFailed ==
    \/ /\ request.op = "generate_game"
       /\ request.role = "TEACHER"
       /\ request.body.kind = "object"
       /\ request.body.topic = Text("quiz")
       /\ request.body.game_type \in {"quiz", "hangman", "memory"}
       /\ request.provider \in {"raises", "empty"}
    \/ /\ request.op = "generate_image"
       /\ request.body.kind \in {"form", "json_object"}
       /\ request.body.prompt.present
       /\ \E i \in 1..Len(request.body.prompt.value) :
              request.body.prompt.value[i] # " "
       /\ \/ request.provider \in {"raises", "empty"}
          \/ request.provider = "result" /\ request.storage = "raises"
    \/ /\ request.op = "tts"
       /\ request.user = student
       /\ \E i \in 1..Len(request.raw_text) : request.raw_text[i] = "w"
       /\ request.provider \in {"raises", "empty"}

\* C14, as stated: every upstream failure of an AI or storage collaborator in
\* the game-generation, image-generation and text-to-speech endpoints is
\* answered with a 502 structured JSON error.
C14_AsStated ==
    UpstreamFailed => (response.http = 502 /\ response.kind = "json")

----------------------------------------------------------------------------
(* C15: a fresh assignment *)

\* an assignment as it is created: ASSIGNED, no draft, no submission
InitFresh ==
    /\ status = ASSIGNED
    /\ draft_response = <<>>
    /\ submissions = <<>>
    /\ structured_content \in Contents
    /\ request = NoRequest
    /\ response = NoResponse
    /\ pre = Rows

SpecFresh == InitFresh /\ [][Next]_vars

\* C15: from an ASSIGNED quiz assignment without submissions, after any
\* sequence of completion and autosave requests run one after another, a stored
\* GRADED status implies that the latest submission exists and has a score
\* >= 80: GRADED with a latest score < 80 is never seen between requests.
C15_GradedQuizHasPassed ==
    (QuizMaterial /\ status = GRADED) =>
        /\ Len(submissions) > 0
        /\ submissions[Len(submissions)].t = "num"
        /\ submissions[Len(submissions)].v >= 80

C15_Witness ==
    /\ QuizMaterial
    /\ OwnerCompletion
    /\ pre.submissions = <<Num(60)>>
    /\ pre.status = IN_PROGRESS
    /\ status = GRADED
    /\ submissions = <<Num(60), Num(85)>>

----------------------------------------------------------------------------
(* C16: the retry path of a graded quiz *)

\* C16: on a GRADED quiz assignment whose latest submission has a score below
\* 80, or which has no submission, a completion request with a numeric score s
\* overwrites the latest submission in place exactly when s exceeds the stored
\* score, creates exactly one Submission when there is none, and otherwise
\* changes nothing and answers retry, completed=false with s; the latest
\* submission's score never decreases.
C16_RetryStoresImprovementsOnly ==
    (/\ OwnerCompletion /\ QuizMaterial /\ NumericScore
     /\ pre.status = GRADED
     /\ Len(pre.submissions) = 0 \/ (PreLatestNumeric /\ PreLatest.v < 80)) =>
        /\ status = GRADED
        /\ draft_response = pre.draft_response
        /\ IF Len(pre.submissions) = 0
           THEN submissions = <<request.body.score>>
           ELSE IF request.body.score.v > PreLatest.v
           THEN submissions =
                  [pre.submissions EXCEPT ![Len(pre.submissions)] = request.body.score]
           ELSE /\ submissions = pre.submissions
                /\ response.status = "retry"
                /\ response.completed = FALSE
                /\ response.score = request.body.score
        /\ Len(pre.submissions) > 0 =>
              /\ Len(submissions) = Len(pre.submissions)
              /\ submissions[Len(submissions)].v >= PreLatest.v

C16_Witness ==
    /\ OwnerCompletion /\ QuizMaterial /\ NumericScore
    /\ pre.status = GRADED
    /\ pre.submissions = <<Num(85), Num(79)>>
    /\ request.body.score = Num(60)
    /\ submissions = <<Num(85), Num(79)>>
    /\ response.status = "retry"
    /\ response.score = Num(60)

----------------------------------------------------------------------------
(* Two requests of the owner served at the same time: every read and every   *)
(* write of the store is a step of its own. request[c] holds call c with its *)
(* position and the row values it has read; response[c] is its answer; pre   *)
(* keeps the rows as they were before both calls.                            *)

Calls == {1, 2}

CompletionCall(score) ==
    [op |-> "complete", score |-> score, post |-> NoPost, pc |-> "start",
     a_status |-> "", a_draft |-> <<>>, sub |-> 0, sub_score |-> Null]
AutosaveCall(post) ==
    [op |-> "autosave", score |-> Null, post |-> post, pc |-> "start",
     a_status |-> "", a_draft |-> <<>>, sub |-> 0, sub_score |-> Null]

RaceCalls ==
    {CompletionCall(Num(60)), CompletionCall(Num(85)),
     AutosaveCall([present |-> TRUE, value |-> <<>>]),
     AutosaveCall([present |-> TRUE, value |-> <<"a">>])}

InitRace ==
    /\ status \in Statuses
    /\ draft_response = <<>>
    /\ submissions \in {<<>>, <<Num(60)>>, <<Num(85)>>}
    /\ structured_content \in {[isNone |-> FALSE, keys |-> {"levels"}],
                               [isNone |-> FALSE, keys |-> {"pairs"}]}
    /\ request \in [Calls -> RaceCalls]
    /\ response = [c \in Calls |-> NoResponse]
    /\ pre = Rows

\* the assignment object as call c holds it in memory, with existing_sub
Local(c) ==
    [status |-> request[c].a_status, draft_response |-> request[c].a_draft,
     submissions |-> IF request[c].sub = 0 THEN <<>> ELSE <<request[c].sub_score>>]

RaceGameType == GameType(GameData(structured_content))

Move(c, call, resp) ==
    /\ request' = [request EXCEPT ![c] = call]
    /\ response' = [response EXCEPT ![c] = resp]
    /\ UNCHANGED <<structured_content, pre>>

\* assignment = get_object_or_404(...); the branch on assignment.status
complete_read_assignment(c) ==
    /\ request[c].op = "complete" /\ request[c].pc = "start"
    /\ Move(c, [request[c] EXCEPT
                  !.a_status = status,
                  !.pc = IF status = GRADED THEN "read_last"
                         ELSE IF RaceGameType = "quiz" /\ ~Passes(request[c].score)
                         THEN "create"
                         ELSE "save_first"],
            response[c])
    /\ UNCHANGED <<status, draft_response, submissions>>

\* existing_sub = assignment.submissions.last(), and what is decided on it
complete_read_last(c) ==
    /\ request[c].op = "complete" /\ request[c].pc = "read_last"
    /\ LET call == [request[c] EXCEPT
                      !.sub = Len(submissions),
                      !.sub_score = IF Len(submissions) > 0 THEN Last(submissions)
                                    ELSE Null]
           view == [status |-> call.a_status, draft_response |-> <<>>,
                    submissions |-> IF call.sub = 0 THEN <<>> ELSE <<call.sub_score>>]
       IN  IF RaceGameType # "quiz"
           THEN Move(c, [call EXCEPT !.pc = "done"], RepeatOther(view).response)
           ELSE IF AlreadyPassed(view)
           THEN Move(c, [call EXCEPT !.pc = "done"],
                     JsonGame("already_completed", call.sub_score, TRUE))
           ELSE IF Improves(view, call.score)
           THEN Move(c, [call EXCEPT !.pc = "store"], response[c])
           ELSE IF Passes(call.score)
           THEN Move(c, [call EXCEPT !.pc = "save_repeat"], response[c])
           ELSE Move(c, [call EXCEPT !.pc = "done"],
                     JsonGame("retry", call.score, FALSE))
    /\ UNCHANGED <<status, draft_response, submissions>>

\* existing_sub.save(update_fields=['score']), or Submission.objects.create
complete_store_improved(c) ==
    /\ request[c].op = "complete" /\ request[c].pc = "store"
    /\ submissions' =
          IF request[c].sub > 0
          THEN [submissions EXCEPT ![request[c].sub] = request[c].score]
          ELSE Append(submissions, request[c].score)
    /\ IF Passes(request[c].score)
       THEN Move(c, [request[c] EXCEPT !.pc = "save_repeat"], response[c])
       ELSE Move(c, [request[c] EXCEPT !.pc = "done"],
                 JsonGame("retry", request[c].score, FALSE))
    /\ UNCHANGED <<status, draft_response>>

\* assignment.save(update_fields=['status']) of the repeat branch
complete_save_repeat(c) ==
    /\ request[c].op = "complete" /\ request[c].pc = "save_repeat"
    /\ status' = SetGraded(Local(c)).status
    /\ Move(c, [request[c] EXCEPT !.pc = "done"],
            JsonGame("success", request[c].score, TRUE))
    /\ UNCHANGED <<draft_response, submissions>>

\* assignment.save(update_fields=['status']) of the first attempt
complete_save_first(c) ==
    /\ request[c].op = "complete" /\ request[c].pc = "save_first"
    /\ status' = SetGraded(Local(c)).status
    /\ Move(c, [request[c] EXCEPT !.pc = "create", !.a_status = GRADED], response[c])
    /\ UNCHANGED <<draft_response, submissions>>

\* Submission.objects.create of the first attempt, and its answer
complete_create_submission(c) ==
    /\ request[c].op = "complete" /\ request[c].pc = "create"
    /\ submissions' = Append(submissions, request[c].score)
    /\ Move(c, [request[c] EXCEPT !.pc = "done"],
            JsonGame("success", request[c].score, request[c].a_status = GRADED))
    /\ UNCHANGED <<status, draft_response>>

\* assignment = get_object_or_404(...), the lock test and the first touch
autosave_read_assignment(c) ==
    /\ request[c].op = "autosave" /\ request[c].pc = "start"
    /\ LET a == [status |-> status, draft_response |-> draft_response,
                 submissions |-> <<>>]
       IN  IF Locked(a)
           THEN Move(c, [request[c] EXCEPT !.pc = "done", !.a_status = status],
                     AutosaveError(400, "locked"))
           ELSE Move(c, [request[c] EXCEPT
                           !.pc = "save",
                           !.a_draft = ReadDraft(request[c].post),
                           !.a_status = TouchStatus(a, ReadDraft(request[c].post))],
                     response[c])
    /\ UNCHANGED <<status, draft_response, submissions>>

\* assignment.save(update_fields=["draft_response", "status"])
autosave_save(c) ==
    /\ request[c].op = "autosave" /\ request[c].pc = "save"
    /\ draft_response' = request[c].a_draft
    /\ status' = request[c].a_status
    /\ Move(c, [request[c] EXCEPT !.pc = "done"], AutosaveOk)
    /\ UNCHANGED submissions

NextRace ==
    \E c \in Calls :
        \/ complete_read_assignment(c)
        \/ complete_read_last(c)
        \/ complete_store_improved(c)
        \/ complete_save_repeat(c)
        \/ complete_save_first(c)
        \/ complete_create_submission(c)
        \/ autosave_read_assignment(c)
        \/ autosave_save(c)

SpecRace == InitRace /\ [][NextRace]_vars

\* C17, as stated: with an autosave and a completion request interleaved at
\* the grain of their reads and writes, the stored status never moves backward;
\* a GRADED written by the completion request is not overwritten with ASSIGNED
\* or IN_PROGRESS by the autosave.
C17_AsStated ==
    [][Rank(status') >= Rank(status)]_vars

\* the rows after the requests of calls c and d are served one after the other
SerialRows(c, d) ==
    LET body(x) == [kind |-> "object", score |-> request[x].score]
        first == CompleteGame(pre, structured_content, student, body(c))
    IN  CompleteGame([status |-> first.status, draft_response |-> first.draft_response,
                      submissions |-> first.submissions],
                     structured_content, student, body(d))

\* status, number of submissions and latest score
Outcome(a) ==
    <<a.status, Len(a.submissions),
      IF Len(a.submissions) > 0 THEN Last(a.submissions) ELSE Null>>

\* C18, as stated: two completion requests interleaved at the grain of their
\* reads and writes leave the status, the number of submissions and the latest
\* score as one of the two serial orders of the same requests leaves them.
C18_AsStated ==
    (\A c \in Calls : request[c].op = "complete" /\ request[c].pc = "done") =>
        Outcome(Rows) \in {Outcome(SerialRows(1, 2)), Outcome(SerialRows(2, 1))}

----------------------------------------------------------------------------
(* C19, C20: the answers and the game type *)

\* C19, as stated: every response of the completion endpoint has a status
\* among success, retry, already_completed and error; completed=true is
\* answered only when the stored status is GRADED as the handler returns, and
\* a response that is no error answers completed=false only for a quiz with a
\* submitted score below 80.
C19_AsStated ==
    request.op = "complete" =>
        /\ response.status \in {"success", "retry", "already_completed", "error"}
        /\ response.http = 200 =>
              /\ response.completed => status = GRADED
              /\ ~response.completed =>
                    /\ QuizMaterial
                    /\ ReadScore(request.body).t = "num"
                    /\ ReadScore(request.body).v < 80

\* C20: the game type is decided by the keys of the structured content with
\* the precedence levels, then word or words, then pairs: content that holds
\* levels is a quiz, and the pass mark of 80 applies to it, whatever other keys
\* it holds; content without levels that holds word or words is hangman, also
\* when it holds pairs.
C20_KeyPrecedence ==
    ~structured_content.isNone =>
        LET keys == structured_content.keys
        IN  /\ "levels" \in keys =>
                 /\ GameType(keys) = "quiz"
                 /\ (/\ OwnerCompletion /\ NumericScore
                     /\ pre.status # GRADED
                     /\ request.body.score.v < 80) =>
                        (status = pre.status /\ response.completed = FALSE)
            /\ ("levels" \notin keys /\ keys \cap {"word", "words"} # {}) =>
                 GameType(keys) = "hangman"
            /\ ("levels" \notin keys /\ keys \cap {"word", "words"} = {}
                /\ "pairs" \in keys) =>
                 GameType(keys) = "memory"

C20_Witness ==
    /\ structured_content = [isNone |-> FALSE, keys |-> {"levels", "word", "pairs"}]
    /\ OwnerCompletion /\ NumericScore
    /\ pre.status = ASSIGNED
    /\ request.body.score = Num(79)
    /\ status = ASSIGNED
    /\ response.completed = FALSE
    /\ submissions = Append(pre.submissions, Num(79))

====
